---- MODULE Spec2Model ----
(***************************************************************************)
(* Model of azure/iot/device/provisioning/abstract_provisioning_device_    *)
(* client.py: the two factory class methods of                            *)
(* AbstractProvisioningDeviceClient, the module-level helpers they call,  *)
(* and the two settable properties of a constructed client.               *)
(*                                                                         *)
(* A factory call is followed statement by statement: pc names the        *)
(* statement that runs next, the other variables are the call's arguments *)
(* and local variables, the exception that left the call (if any) and the *)
(* client it returned (if any).                                           *)
(*                                                                         *)
(* Python values: a str is a sequence of one-character strings, None and  *)
(* objects are records tagged by their type, **kwargs is the sequence of  *)
(* its (key, value) entries in the order the caller wrote them.           *)
(***************************************************************************)
EXTENDS Integers, Sequences, FiniteSets, TLC

VARIABLES
    pc,                         \* the statement of the factory that runs next
    entry,                      \* the factory entry point that was called
    provisioning_host,          \* argument
    registration_id,            \* argument
    id_scope,                   \* argument
    credential,                 \* argument: symmetric_key or x509
    kwargs,                     \* argument: **kwargs
    uri,                        \* local of create_from_symmetric_key
    signing_mechanism,          \* local of create_from_symmetric_key
    token_ttl,                  \* local of create_from_symmetric_key
    sastoken,                   \* local of create_from_symmetric_key
    pipeline_configuration,     \* local of both factories
    mqtt_provisioning_pipeline, \* local of both factories
    raised,                     \* the exception that propagated to the caller
    client                      \* the object the factory returned

vars == << pc, entry, provisioning_host, registration_id, id_scope, credential,
           kwargs, uri, signing_mechanism, token_ttl, sastoken,
           pipeline_configuration, mqtt_provisioning_pipeline, raised, client >>

-----------------------------------------------------------------------------
(* Bounds of the inputs. *)

MaxLen == 3

MaxKwargs == 2

(* Program constant: the default of kwargs.get("sastoken_ttl", 3600). *)
DefaultSasTtl == 3600

-----------------------------------------------------------------------------
(* Python values. *)

None == [type |-> "NoneType"]

Str(s) == [type |-> "str", val |-> s]

IntVal(n) == [type |-> "int", val |-> n]

Whitespace == {" "}

Chars == {"r", " "}

Strings(n) == UNION {[1..k -> Chars] : k \in 0..n}

RECURSIVE lstrip(_)
lstrip(s) ==
    IF s = << >> THEN << >>
    ELSE IF Head(s) \in Whitespace THEN lstrip(Tail(s))
    ELSE s

RECURSIVE rstrip(_)
rstrip(s) ==
    IF s = << >> THEN << >>
    ELSE IF s[Len(s)] \in Whitespace THEN rstrip(SubSeq(s, 1, Len(s) - 1))
    ELSE s

strip(s) == rstrip(lstrip(s))

(* Truth value of a Python value: None and the empty str are false. *)
truthy(v) ==
    IF v = None THEN FALSE
    ELSE IF v.type = "str" THEN v.val # << >>
    ELSE TRUE

-----------------------------------------------------------------------------
(* The inputs a caller can supply. *)

RegistrationIds == {None} \cup {Str(s) : s \in Strings(MaxLen)}

IdScopes == {Str(<<"s">>), Str(<<"s", "c">>)}

Hosts == {"host", "gateway"}

SymmetricKeys == {"base64key=="}

X509s == {[type |-> "X509", cert_file |-> "cert.pem"]}

OptionKeys ==
    {"server_verification_cert", "gateway_hostname", "websockets", "cipher",
     "proxy_options", "sastoken_ttl", "keep_alive", "keepalive"}

OptionValues(k) ==
    IF k = "sastoken_ttl" THEN {10, 7200}
    ELSE IF k = "websockets" THEN {TRUE, FALSE}
    ELSE IF k = "keep_alive" \/ k = "keepalive" THEN {60}
    ELSE {"v"}

Entries == UNION {{[key |-> k, value |-> v] : v \in OptionValues(k)} : k \in OptionKeys}

Keys(kw) == {kw[i].key : i \in 1..Len(kw)}

\* Keyword arguments: every key at most once.
KwargsInputs ==
    {kw \in UNION {[1..n -> Entries] : n \in 0..MaxKwargs} :
        \A i, j \in 1..Len(kw) : kw[i].key = kw[j].key => i = j}

-----------------------------------------------------------------------------
(* Exceptions. *)

TypeError(kwarg) ==
    [type |-> "TypeError", msg |-> "Unsupported keyword argument", arg |-> kwarg,
     cause |-> None]

ValueError(message, e) ==
    [type |-> "ValueError", msg |-> message, arg |-> "", cause |-> e]

SasTokenError == [type |-> "SasTokenError"]

-----------------------------------------------------------------------------
(* Module-level helpers.  Each returns the exception it raises, or None     *)
(* when it returns normally.                                               *)

valid_kwargs ==
    {"server_verification_cert", "gateway_hostname", "websockets", "cipher",
     "proxy_options", "sastoken_ttl", "keep_alive"}

(* Mutant: "and" where the code has "or". *)
RECURSIVE validate_kwargs_and(_, _)
validate_kwargs_and(exclude, kw) ==
    IF kw = << >> THEN None
    ELSE IF (Head(kw).key \notin valid_kwargs) /\ (Head(kw).key \in exclude)
         THEN TypeError(Head(kw).key)
    ELSE validate_kwargs_and(exclude, Tail(kw))

RECURSIVE validate_kwargs(_, _)
validate_kwargs(exclude, kw) ==
    IF kw = << >> THEN None
    ELSE IF (Head(kw).key \notin valid_kwargs) \/ (Head(kw).key \in exclude)
         THEN TypeError(Head(kw).key)
    ELSE validate_kwargs(exclude, Tail(kw))

(* Mutant: the id is not stripped before it is tested. *)
validate_registration_id_nostrip(reg_id) ==
    IF ~truthy(reg_id)
    THEN ValueError("Registration Id can not be none, empty or blank.", None)
    ELSE None

validate_registration_id(reg_id) ==
    IF ~(truthy(reg_id) /\ truthy(Str(strip(reg_id.val))))
    THEN ValueError("Registration Id can not be none, empty or blank.", None)
    ELSE None

valid_config_kwargs ==
    {"server_verification_cert", "gateway_hostname", "websockets", "cipher",
     "proxy_options", "keep_alive"}

(* Mutant: every option is handed to the configuration. *)
get_config_kwargs_all(kw) == kw

get_config_kwargs(kw) == SelectSeq(kw, LAMBDA e : e.key \in valid_config_kwargs)

Slash == <<"/", "r", "e", "g", "i", "s", "t", "r", "a", "t", "i", "o", "n", "s", "/">>

(* Mutant: the registration id is stripped before it is formatted. *)
form_sas_uri_stripped(scope, reg_id) == Str(scope.val \o Slash \o strip(reg_id.val))

form_sas_uri(scope, reg_id) == Str(scope.val \o Slash \o reg_id.val)

(* Mutant: the option is ignored. *)
get_default(kw, key, default) == default

(* dict.get(key, default) *)
get(kw, key, default) ==
    IF \E i \in 1..Len(kw) : kw[i].key = key
    THEN (CHOOSE e \in {kw[i] : i \in 1..Len(kw)} : e.key = key).value
    ELSE default

-----------------------------------------------------------------------------
(* Collaborators that live outside this file.                              *)

(* RenewableSasToken(uri, signing_mechanism, ttl) either returns a token   *)
(* or fails with the token-specific error.                                 *)
SasTokenOutcomes == {"token", "SasTokenError"}

handle_background_exception == "handle_exceptions.handle_background_exception"

-----------------------------------------------------------------------------
(* What the locals and results of a call hold before they are assigned. *)

Unbuilt ==
    /\ uri = None
    /\ signing_mechanism = None
    /\ token_ttl = None
    /\ sastoken = None
    /\ pipeline_configuration = None
    /\ mqtt_provisioning_pipeline = None
    /\ client = None

Init ==
    /\ pc = "idle"
    /\ entry = "none"
    /\ provisioning_host = "host"
    /\ registration_id = None
    /\ id_scope = None
    /\ credential = None
    /\ kwargs = << >>
    /\ raised = None
    /\ Unbuilt

(* Entry of create_from_symmetric_key: the arguments are bound, no local   *)
(* is assigned yet.                                                        *)
create_from_symmetric_key ==
    /\ pc = "idle"
    /\ \E host \in Hosts, reg_id \in RegistrationIds, scope \in IdScopes,
          symmetric_key \in SymmetricKeys, kw \in KwargsInputs :
        /\ pc' = "validate_registration_id"
        /\ entry' = "create_from_symmetric_key"
        /\ provisioning_host' = host
        /\ registration_id' = reg_id
        /\ id_scope' = scope
        /\ credential' = [type |-> "str", val |-> symmetric_key]
        /\ kwargs' = kw
        /\ raised' = None
        /\ uri' = None
        /\ signing_mechanism' = None
        /\ token_ttl' = None
        /\ sastoken' = None
        /\ pipeline_configuration' = None
        /\ mqtt_provisioning_pipeline' = None
        /\ client' = None

(* Entry of create_from_x509_certificate. *)
create_from_x509_certificate ==
    /\ pc = "idle"
    /\ \E host \in Hosts, reg_id \in RegistrationIds, scope \in IdScopes,
          x509 \in X509s, kw \in KwargsInputs :
        /\ pc' = "validate_registration_id"
        /\ entry' = "create_from_x509_certificate"
        /\ provisioning_host' = host
        /\ registration_id' = reg_id
        /\ id_scope' = scope
        /\ credential' = x509
        /\ kwargs' = kw
        /\ raised' = None
        /\ uri' = None
        /\ signing_mechanism' = None
        /\ token_ttl' = None
        /\ sastoken' = None
        /\ pipeline_configuration' = None
        /\ mqtt_provisioning_pipeline' = None
        /\ client' = None

(* An exception leaves the factory: the call is over, nothing is returned. *)
Raise(e) ==
    /\ pc' = "raised"
    /\ raised' = e

args == << entry, provisioning_host, registration_id, id_scope, credential, kwargs >>

(* Mutant: nothing is excluded. *)
excluded_kwargs_empty == {}

(* Line 209 *)
excluded_kwargs == {"sastoken_ttl"}

(* Mutant: the options are checked before the registration id. *)
ValidateRegistrationId_late ==
    /\ pc = "validate_registration_id"
    /\ LET exclude == IF entry = "create_from_x509_certificate"
                      THEN excluded_kwargs ELSE {}
       IN IF validate_kwargs(exclude, kwargs) # None
          THEN Raise(validate_kwargs(exclude, kwargs))
          ELSE IF validate_registration_id(registration_id) # None
               THEN Raise(validate_registration_id(registration_id))
               ELSE pc' = "validate_kwargs" /\ UNCHANGED raised
    /\ UNCHANGED << args, uri, signing_mechanism, token_ttl, sastoken,
                    pipeline_configuration, mqtt_provisioning_pipeline, client >>

(* Lines 135 and 207: validate_registration_id(registration_id) *)
ValidateRegistrationId ==
    /\ pc = "validate_registration_id"
    /\ IF validate_registration_id(registration_id) # None
       THEN Raise(validate_registration_id(registration_id))
       ELSE pc' = "validate_kwargs" /\ UNCHANGED raised
    /\ UNCHANGED << args, uri, signing_mechanism, token_ttl, sastoken,
                    pipeline_configuration, mqtt_provisioning_pipeline, client >>

\* Line 137: the option check, nothing excluded.
SymValidateKwargs ==
    /\ pc = "validate_kwargs"
    /\ entry = "create_from_symmetric_key"
    /\ IF validate_kwargs({}, kwargs) # None
       THEN Raise(validate_kwargs({}, kwargs))
       ELSE pc' = "form_sas_uri" /\ UNCHANGED raised
    /\ UNCHANGED << args, uri, signing_mechanism, token_ttl, sastoken,
                    pipeline_configuration, mqtt_provisioning_pipeline, client >>

\* Lines 209-210: the option check, sastoken_ttl excluded.
X509ValidateKwargs ==
    /\ pc = "validate_kwargs"
    /\ entry = "create_from_x509_certificate"
    /\ IF validate_kwargs(excluded_kwargs, kwargs) # None
       THEN Raise(validate_kwargs(excluded_kwargs, kwargs))
       ELSE pc' = "pipeline_config" /\ UNCHANGED raised
    /\ UNCHANGED << args, uri, signing_mechanism, token_ttl, sastoken,
                    pipeline_configuration, mqtt_provisioning_pipeline, client >>

(* Lines 140-142: the uri, the signing mechanism and the time-to-live. *)
SasTokenInputs ==
    /\ pc = "form_sas_uri"
    /\ uri' = form_sas_uri(id_scope, registration_id)
    /\ signing_mechanism' =
           [type |-> "SymmetricKeySigningMechanism", key |-> credential]
    /\ token_ttl' = IntVal(get(kwargs, "sastoken_ttl", DefaultSasTtl))
    /\ pc' = "sastoken"
    /\ UNCHANGED << args, sastoken, pipeline_configuration,
                    mqtt_provisioning_pipeline, raised, client >>

(* Mutant: the failure of the token is not caught. *)
CreateSasToken_uncaught ==
    /\ pc = "sastoken"
    /\ \E outcome \in SasTokenOutcomes :
          IF outcome = "token"
          THEN /\ sastoken' = [type |-> "RenewableSasToken", uri |-> uri,
                               signing_mechanism |-> signing_mechanism,
                               ttl |-> token_ttl.val]
               /\ pc' = "pipeline_config"
               /\ UNCHANGED raised
          ELSE /\ Raise(SasTokenError)
               /\ UNCHANGED sastoken
    /\ UNCHANGED << args, uri, signing_mechanism, token_ttl,
                    pipeline_configuration, mqtt_provisioning_pipeline, client >>

(* Lines 143-148: the token, or the ValueError that wraps its failure. *)
CreateSasToken ==
    /\ pc = "sastoken"
    /\ \E outcome \in SasTokenOutcomes :
          IF outcome = "token"
          THEN /\ sastoken' = [type |-> "RenewableSasToken", uri |-> uri,
                               signing_mechanism |-> signing_mechanism,
                               ttl |-> token_ttl.val]
               /\ pc' = "pipeline_config"
               /\ UNCHANGED raised
          ELSE /\ Raise(ValueError("Could not create a SasToken using the provided values",
                                   SasTokenError))
               /\ UNCHANGED sastoken
    /\ UNCHANGED << args, uri, signing_mechanism, token_ttl,
                    pipeline_configuration, mqtt_provisioning_pipeline, client >>

(* Lines 151-158: the configuration of the symmetric-key factory. *)
SymPipelineConfig ==
    /\ pc = "pipeline_config"
    /\ entry = "create_from_symmetric_key"
    /\ pipeline_configuration' =
           [type |-> "ProvisioningPipelineConfig",
            hostname |-> provisioning_host,
            registration_id |-> registration_id,
            id_scope |-> id_scope,
            sastoken |-> sastoken,
            x509 |-> None,
            options |-> get_config_kwargs(kwargs)]
    /\ pc' = "pipeline"
    /\ UNCHANGED << args, uri, signing_mechanism, token_ttl, sastoken,
                    mqtt_provisioning_pipeline, raised, client >>

(* Mutant: the certificate is not handed to the configuration. *)
X509PipelineConfig_nocert ==
    /\ pc = "pipeline_config"
    /\ entry = "create_from_x509_certificate"
    /\ pipeline_configuration' =
           [type |-> "ProvisioningPipelineConfig",
            hostname |-> provisioning_host,
            registration_id |-> registration_id,
            id_scope |-> id_scope,
            sastoken |-> None,
            x509 |-> None,
            options |-> get_config_kwargs(kwargs)]
    /\ pc' = "pipeline"
    /\ UNCHANGED << args, uri, signing_mechanism, token_ttl, sastoken,
                    mqtt_provisioning_pipeline, raised, client >>

(* Lines 213-220: the configuration of the certificate factory. *)
X509PipelineConfig ==
    /\ pc = "pipeline_config"
    /\ entry = "create_from_x509_certificate"
    /\ pipeline_configuration' =
           [type |-> "ProvisioningPipelineConfig",
            hostname |-> provisioning_host,
            registration_id |-> registration_id,
            id_scope |-> id_scope,
            sastoken |-> None,
            x509 |-> credential,
            options |-> get_config_kwargs(kwargs)]
    /\ pc' = "pipeline"
    /\ UNCHANGED << args, uri, signing_mechanism, token_ttl, sastoken,
                    mqtt_provisioning_pipeline, raised, client >>

(* Lines 161 and 223: pipeline.MQTTPipeline(pipeline_configuration) *)
PipelineSetup ==
    /\ pc = "pipeline"
    /\ mqtt_provisioning_pipeline' =
           [type |-> "MQTTPipeline",
            pipeline_configuration |-> pipeline_configuration,
            on_background_exception |-> "unset"]
    /\ pc' = "client"
    /\ UNCHANGED << args, uri, signing_mechanism, token_ttl, sastoken,
                    pipeline_configuration, raised, client >>

(* __init__(self, pipeline): the fields of a new client. *)
init(pipeline) ==
    [type |-> "ProvisioningDeviceClient",
     pipeline |-> [pipeline EXCEPT !.on_background_exception =
                                       handle_background_exception],
     provisioning_payload |-> None,
     client_csr |-> None]

(* Lines 163 and 225: return cls(mqtt_provisioning_pipeline) *)
ReturnClient ==
    /\ pc = "client"
    /\ client' = init(mqtt_provisioning_pipeline)
    /\ pc' = "returned"
    /\ UNCHANGED << args, uri, signing_mechanism, token_ttl, sastoken,
                    pipeline_configuration, mqtt_provisioning_pipeline, raised >>

-----------------------------------------------------------------------------
(* The properties of a client. *)

Payloads == {None, Str(<<"p">>), [type |-> "dict", val |-> <<"k", "v">>]}

Csrs == {None, Str(<<"c", "s", "r">>), Str(<< >>)}

provisioning_payload == client.provisioning_payload

client_csr == client.client_csr

(* provisioning_payload.setter *)
SetProvisioningPayload(value) ==
    /\ pc = "returned"
    /\ client' = [client EXCEPT !.provisioning_payload = value]
    /\ UNCHANGED << pc, args, uri, signing_mechanism, token_ttl, sastoken,
                    pipeline_configuration, mqtt_provisioning_pipeline, raised >>

(* Mutant: the setter of client_csr assigns the other field. *)
SetClientCsr_payload(csr) ==
    /\ pc = "returned"
    /\ client' = [client EXCEPT !.provisioning_payload = csr]
    /\ UNCHANGED << pc, args, uri, signing_mechanism, token_ttl, sastoken,
                    pipeline_configuration, mqtt_provisioning_pipeline, raised >>

(* client_csr.setter *)
SetClientCsr(csr) ==
    /\ pc = "returned"
    /\ client' = [client EXCEPT !.client_csr = csr]
    /\ UNCHANGED << pc, args, uri, signing_mechanism, token_ttl, sastoken,
                    pipeline_configuration, mqtt_provisioning_pipeline, raised >>

-----------------------------------------------------------------------------

Next ==
    \/ create_from_symmetric_key
    \/ create_from_x509_certificate
    \/ ValidateRegistrationId
    \/ SymValidateKwargs
    \/ X509ValidateKwargs
    \/ SasTokenInputs
    \/ CreateSasToken
    \/ SymPipelineConfig
    \/ X509PipelineConfig
    \/ PipelineSetup
    \/ ReturnClient
    \/ \E value \in Payloads : SetProvisioningPayload(value)
    \/ \E csr \in Csrs : SetClientCsr(csr)

Spec == Init /\ [][Next]_vars

-----------------------------------------------------------------------------
(* Vocabulary of the properties. *)

RecognizedOptions ==
    {"server_verification_cert", "gateway_hostname", "websockets", "cipher",
     "proxy_options", "sastoken_ttl", "keep_alive"}

ConfigurationOptions ==
    {"server_verification_cert", "gateway_hostname", "websockets", "cipher",
     "proxy_options", "keep_alive"}

IsStr(v) == v.type = "str"

Blank(s) == \A i \in 1..Len(s) : s[i] = " "

BlankId == IsStr(registration_id) /\ Blank(registration_id.val)

GoodId == IsStr(registration_id) /\ ~Blank(registration_id.val)

HasUnrecognizedOption == \E k \in Keys(kwargs) : k \notin RecognizedOptions

Symmetric == entry = "create_from_symmetric_key"

Certificate == entry = "create_from_x509_certificate"

Finished == pc \in {"returned", "raised"}

RegistrationIdChecked == pc \notin {"idle", "validate_registration_id"}

OptionsChecked == pc \notin {"idle", "validate_registration_id", "validate_kwargs"}

InvalidArgument == raised.type = "TypeError"

RegistrationIdValueError == raised.type = "ValueError" /\ raised.cause = None

TokenValueError == raised.type = "ValueError" /\ raised.cause = SasTokenError

NothingBuilt ==
    /\ uri = None /\ signing_mechanism = None /\ sastoken = None
    /\ pipeline_configuration = None /\ mqtt_provisioning_pipeline = None
    /\ client = None

-----------------------------------------------------------------------------
C2_BlankRegistrationIdRejected ==
    /\ (RegistrationIdChecked /\ BlankId) =>
          (pc = "raised" /\ RegistrationIdValueError /\ NothingBuilt)
    /\ (RegistrationIdChecked /\ GoodId) => ~RegistrationIdValueError
    /\ (pc = "validate_registration_id") => (raised = None /\ NothingBuilt)

C2_Witness ==
    /\ pc = "raised"
    /\ Certificate
    /\ registration_id = Str(<<" ", " ">>)
    /\ RegistrationIdValueError
    /\ Keys(kwargs) \subseteq RecognizedOptions \ {"sastoken_ttl"}

(* C3, as stated: on the certificate path, supplying sastoken_ttl fails    *)
(* with the invalid-argument error (TypeError) and no pipeline is built.   *)
C3_AsStated ==
    (Finished /\ Certificate /\ "sastoken_ttl" \in Keys(kwargs)) =>
        (InvalidArgument /\ mqtt_provisioning_pipeline = None)

(* C3, amended: on the certificate path, supplying sastoken_ttl together   *)
(* with a non-blank registration id fails with the invalid-argument error  *)
(* (TypeError), with a blank registration id it fails with the             *)
(* registration-id value error, and in both cases no pipeline is built;    *)
(* the same option mapping is accepted by the option validator on the      *)
(* symmetric-key path.                                                     *)
C3_CertificatePathExcludesTtl ==
    /\ (Finished /\ Certificate /\ "sastoken_ttl" \in Keys(kwargs)) =>
          /\ pc = "raised"
          /\ mqtt_provisioning_pipeline = None
          /\ pipeline_configuration = None
          /\ client = None
          /\ IF GoodId THEN InvalidArgument ELSE RegistrationIdValueError
    /\ (Certificate /\ OptionsChecked /\ pc # "raised") =>
          "sastoken_ttl" \notin Keys(kwargs)
    /\ (Symmetric /\ Keys(kwargs) \subseteq RecognizedOptions) => ~InvalidArgument
    /\ (Symmetric /\ Finished /\ GoodId /\ Keys(kwargs) \subseteq RecognizedOptions) =>
          (uri # None /\ signing_mechanism # None)

C3_Witness ==
    /\ pc = "raised"
    /\ Certificate
    /\ GoodId
    /\ Keys(kwargs) = {"sastoken_ttl"}
    /\ InvalidArgument
    /\ raised.arg = "sastoken_ttl"

(* C4: on the symmetric-key path a failure of token derivation leaves the  *)
(* factory as a value error whose cause is the original token error, and   *)
(* then no configuration, pipeline or client is constructed; no other kind *)
(* of error leaves the token-derivation step.                              *)
C4_TokenFailureIsValueError ==
    /\ (pc = "raised" /\ token_ttl # None) =>
          /\ Symmetric
          /\ raised.type = "ValueError"
          /\ raised.cause = SasTokenError
          /\ raised.msg = "Could not create a SasToken using the provided values"
          /\ sastoken = None
          /\ pipeline_configuration = None
          /\ mqtt_provisioning_pipeline = None
          /\ client = None
    /\ raised.type \in {"NoneType", "TypeError", "ValueError"}

C4_Witness ==
    /\ pc = "raised"
    /\ Symmetric
    /\ TokenValueError
    /\ uri # None
    /\ signing_mechanism # None
    /\ "sastoken_ttl" \in Keys(kwargs)

(* C5: on the symmetric-key path the time-to-live passed to token          *)
(* derivation is 3600 when the options hold no sastoken_ttl, and exactly N *)
(* when they hold sastoken_ttl=N.                                          *)
C5_TokenTtl ==
    /\ token_ttl # None =>
          /\ Symmetric
          /\ ("sastoken_ttl" \notin Keys(kwargs)) => token_ttl.val = 3600
          /\ \A i \in 1..Len(kwargs) :
                kwargs[i].key = "sastoken_ttl" => token_ttl.val = kwargs[i].value
    /\ sastoken # None => (token_ttl # None /\ sastoken.ttl = token_ttl.val)
    /\ (Symmetric /\ pc \in {"sastoken", "pipeline_config", "pipeline", "client",
                              "returned"}) => token_ttl # None

C5_Witness ==
    /\ sastoken # None
    /\ Len(kwargs) = 2
    /\ kwargs[2] = [key |-> "sastoken_ttl", value |-> 7200]
    /\ sastoken.ttl = 7200

(* C6: on the symmetric-key path the signing scope given to token          *)
(* derivation is id_scope, then "/registrations/", then registration_id    *)
(* exactly as supplied (not trimmed).                                      *)
C6_SigningScope ==
    /\ uri # None =>
          LET u == uri.val
              n == Len(id_scope.val)
              m == Len(registration_id.val)
          IN /\ Symmetric
             /\ Len(u) = n + 15 + m
             /\ SubSeq(u, 1, n) = id_scope.val
             /\ SubSeq(u, n + 1, n + 15) =
                    <<"/", "r", "e", "g", "i", "s", "t", "r", "a", "t", "i", "o", "n", "s", "/">>
             /\ SubSeq(u, n + 16, n + 15 + m) = registration_id.val
    /\ sastoken # None => (uri # None /\ sastoken.uri = uri)
    /\ (Symmetric /\ pc = "sastoken") => uri # None

C6_Witness ==
    /\ sastoken # None
    /\ registration_id = Str(<<" ", "r", " ">>)
    /\ id_scope = Str(<<"s", "c">>)
    /\ Len(sastoken.uri.val) = 20

(* C7: for every successful factory call the configuration handed to the   *)
(* pipeline carries the supplied host, registration id and id_scope        *)
(* unchanged, and its options are exactly the supplied options restricted  *)
(* to the six configuration options, each with its supplied value;         *)
(* sastoken_ttl is never among them and no option that was not supplied    *)
(* is added.                                                               *)
ConfigurationAsSupplied(cfg) ==
    /\ cfg.hostname = provisioning_host
    /\ cfg.registration_id = registration_id
    /\ cfg.id_scope = id_scope
    /\ Keys(cfg.options) = Keys(kwargs) \cap ConfigurationOptions
    /\ "sastoken_ttl" \notin Keys(cfg.options)
    /\ Len(cfg.options) = Cardinality(Keys(cfg.options))
    /\ \A i \in 1..Len(cfg.options) : \E j \in 1..Len(kwargs) :
          /\ kwargs[j].key = cfg.options[i].key
          /\ kwargs[j].value = cfg.options[i].value

C7_ConfigurationOptions ==
    /\ pipeline_configuration # None => ConfigurationAsSupplied(pipeline_configuration)
    /\ mqtt_provisioning_pipeline # None =>
          mqtt_provisioning_pipeline.pipeline_configuration = pipeline_configuration
    /\ client # None =>
          /\ pipeline_configuration # None
          /\ client.pipeline.pipeline_configuration = pipeline_configuration
    /\ pc = "returned" => client # None

C7_Witness ==
    /\ pc = "returned"
    /\ Symmetric
    /\ provisioning_host = "host"
    /\ kwargs = << [key |-> "sastoken_ttl", value |-> 10],
                   [key |-> "websockets", value |-> TRUE] >>
    /\ client.pipeline.pipeline_configuration.options =
          << [key |-> "websockets", value |-> TRUE] >>

(* C8: exactly one credential kind is bound to a client for its lifetime:  *)
(* a client of create_from_symmetric_key has a configuration with a        *)
(* renewable token and no certificate, a client of                         *)
(* create_from_x509_certificate has a configuration with the supplied      *)
(* certificate, unchanged, and no token, and no later operation on the     *)
(* client changes its pipeline or its credential.                          *)
OneCredential ==
    client # None =>
        LET cfg == client.pipeline.pipeline_configuration
        IN /\ Symmetric =>
                /\ cfg.sastoken.type = "RenewableSasToken"
                /\ cfg.sastoken.signing_mechanism.key.val \in SymmetricKeys
                /\ cfg.x509 = None
           /\ Certificate =>
                /\ cfg.x509 = credential
                /\ cfg.x509 \in X509s
                /\ cfg.sastoken = None
           /\ Symmetric \/ Certificate

PipelineKept == (client # None) => (client' # None /\ client'.pipeline = client.pipeline)

C8_OneCredentialForLife == []OneCredential /\ [][PipelineKept]_vars

C8_Witness ==
    /\ pc = "returned"
    /\ Certificate
    /\ client.provisioning_payload # None
    /\ client.client_csr # None
    /\ client.pipeline.pipeline_configuration.x509 \in X509s

(* C9: after construction provisioning_payload and client_csr both read    *)
(* None; a write to either field is read back exactly (any value is        *)
(* accepted) and leaves the other field as it was, so each field reads the *)
(* value most recently written to it.                                      *)
LastWriteWins ==
    /\ ReturnClient => (provisioning_payload' = None /\ client_csr' = None)
    /\ \A value \in Payloads :
          SetProvisioningPayload(value) =>
              (provisioning_payload' = value /\ client_csr' = client_csr)
    /\ \A csr \in Csrs :
          SetClientCsr(csr) =>
              (client_csr' = csr /\ provisioning_payload' = provisioning_payload)
    /\ (client # None
          /\ ~(\E value \in Payloads : SetProvisioningPayload(value))
          /\ ~(\E csr \in Csrs : SetClientCsr(csr))) =>
              (provisioning_payload' = provisioning_payload /\ client_csr' = client_csr)

C9_LastWriteWins == [][LastWriteWins]_vars

C9_Witness ==
    /\ pc = "returned"
    /\ provisioning_payload = [type |-> "dict", val |-> <<"k", "v">>]
    /\ client_csr = Str(<< >>)

(* C10: in both factories the registration-id check runs before the option *)
(* check and both run before any credential or pipeline step: a call with  *)
(* a blank registration id and an unsupported (or, on the certificate      *)
(* path, excluded) option surfaces the registration-id value error, not    *)
(* the invalid-argument error; and the failure of token derivation         *)
(* surfaces only after both checks have passed.                            *)
HasRejectedOption ==
    \/ HasUnrecognizedOption
    \/ Certificate /\ "sastoken_ttl" \in Keys(kwargs)

C10_CheckOrder ==
    /\ pc \in {"validate_registration_id", "validate_kwargs"} =>
          (NothingBuilt /\ token_ttl = None /\ raised = None)
    /\ (Finished /\ BlankId /\ HasRejectedOption) =>
          (RegistrationIdValueError /\ ~InvalidArgument)
    /\ InvalidArgument => GoodId
    /\ TokenValueError => (Symmetric /\ GoodId /\ ~HasRejectedOption)
    /\ (uri # None \/ signing_mechanism # None \/ pipeline_configuration # None) =>
          (GoodId /\ ~HasRejectedOption)

C10_Witness ==
    /\ pc = "raised"
    /\ Symmetric
    /\ registration_id = Str(<< >>)
    /\ "keepalive" \in Keys(kwargs)
    /\ RegistrationIdValueError

====
